---- MODULE Spec2Model ----
(***************************************************************************)
(* Model of src/scraper/scraper.py (EAFCPlayerScraper): the pagination      *)
(* loop of fetch_all_players, the flattening of one raw record by           *)
(* extract_player_data, and the CSV writer save_to_csv.                     *)
(*                                                                          *)
(* JSON values are tagged records [t |-> tag, v |-> payload]:               *)
(*   "null" (None), "bool", "num", "str" (payload: a sequence of one-       *)
(*   character strings), "list" (payload: a sequence of values), "obj"      *)
(*   (payload: a function from key to value).                               *)
(***************************************************************************)
EXTENDS Integers, Sequences, FiniteSets, TLC

\* ------------------------------------------------------------------------
\* JSON / Python values
\* ------------------------------------------------------------------------
Null == [t |-> "null", v |-> 0]
Bool(b) == [t |-> "bool", v |-> b]
Num(n) == [t |-> "num", v |-> n]
Str(s) == [t |-> "str", v |-> s]
List(s) == [t |-> "list", v |-> s]
Obj(f) == [t |-> "obj", v |-> f]

EmptyStr == Str(<< >>)
EmptyMap == [k \in {} |-> Null]
EmptyObj == Obj(EmptyMap)

\* Python truthiness, as used by "x or default", "if pos" and "if not data".
Truthy(x) ==
  CASE x.t = "null" -> FALSE
    [] x.t = "bool" -> x.v
    [] x.t = "num" -> x.v # 0
    [] x.t = "str" -> x.v # << >>
    [] x.t = "list" -> x.v # << >>
    [] x.t = "obj" -> DOMAIN x.v # {}

\* dict.get(key) on a mapping payload: the value, or None when absent.
Get(d, key) == IF key \in DOMAIN d THEN d[key] ELSE Null

\* dict.get(key, default) on a mapping payload.
GetOr(d, key, default) == IF key \in DOMAIN d THEN d[key] ELSE default

\* "x or default"
OrElse(x, default) == IF Truthy(x) THEN x ELSE default

\* The separator character of the joined list columns.
Sep == "|"

\* '|'.join(labels) over a sequence of character sequences.
RECURSIVE Join(_)
Join(labels) ==
  IF labels = << >> THEN << >>
  ELSE IF Len(labels) = 1 THEN labels[1]
  ELSE labels[1] \o <<Sep>> \o Join(Tail(labels))

\* What iterating a value yields (for ... in x): a list yields its
\* elements, a str its characters, a dict its keys (a key is a str, empty
\* exactly when the key is ""); a number or a bool is not iterable.
Iterable(x) == x.t \in {"list", "str", "obj"}
KeyElems(d) ==
  LET RECURSIVE Ks(_)
      Ks(S) == IF S = {} THEN << >>
               ELSE LET k == CHOOSE e \in S : TRUE
                    IN <<Str(IF k = "" THEN << >> ELSE <<k>>)>> \o Ks(S \ {k})
  IN Ks(DOMAIN d)
Elems(x) ==
  CASE x.t = "list" -> x.v
    [] x.t = "str" -> [i \in 1..Len(x.v) |-> Str(<<x.v[i]>>)]
    [] x.t = "obj" -> KeyElems(x.v)

\* [e.get(key, '') for e in xs if e]: the comprehension of lines 73, 78, 79.
\* exc is "none" or the exception the comprehension raises: TypeError when
\* xs is not iterable, AttributeError at the first truthy element that has
\* no .get (anything but a dict).
Filtered(s) == SelectSeq(s, Truthy)
Comprehension(xs, key) ==
  IF ~Iterable(xs) THEN [exc |-> "TypeError", val |-> << >>]
  ELSE LET es == Filtered(Elems(xs))
       IN IF \E i \in 1..Len(es) : es[i].t # "obj"
          THEN [exc |-> "AttributeError", val |-> << >>]
          ELSE [exc |-> "none",
                val |-> [i \in 1..Len(es) |-> GetOr(es[i].v, key, EmptyStr)]]

\* '|'.join(vals) if vals else '': str.join raises TypeError on a non-str item.
JoinColumn(vals) ==
  IF vals = << >> THEN [exc |-> "none", val |-> EmptyStr]
  ELSE IF \E i \in 1..Len(vals) : vals[i].t # "str"
       THEN [exc |-> "TypeError", val |-> EmptyStr]
       ELSE [exc |-> "none", val |-> Str(Join([i \in 1..Len(vals) |-> vals[i].v]))]

\* (player.get(field) or {}) followed by .get(sub, ''): lines 84-95.
\* AttributeError when the field is truthy and not a dict.
SubObject(player, field) == OrElse(Get(player, field), EmptyObj)

\* The first exception in evaluation order, "none" when there is none.
RECURSIVE FirstExc(_)
FirstExc(es) ==
  IF es = << >> THEN "none"
  ELSE IF es[1] # "none" THEN es[1] ELSE FirstExc(Tail(es))

\* The 11 scalar columns (lines 57-69): column name -> source key.
ScalarSource ==
  [id |-> "id", overall_rating |-> "overallRating", first_name |-> "firstName",
   last_name |-> "lastName", common_name |-> "commonName",
   skill_moves |-> "skillMoves", weak_foot |-> "weakFootAbility",
   preferred_foot |-> "preferredFoot", league_name |-> "leagueName",
   avatar_url |-> "avatarUrl", shield_url |-> "shieldUrl"]
ScalarColumns == DOMAIN ScalarSource
ListColumns == {"alternate_positions", "player_abilities_labels", "player_abilities_images"}
ObjectColumns == {"nationality_label", "nationality_image_url", "team_label",
                  "team_image_url", "position_short_label"}
StaticColumns == ScalarColumns \cup ListColumns \cup ObjectColumns

\* f'stat_{stat_name}'
StatColumn(k) == "stat_" \o k

\* The stats loop (lines 98-101): one column per key whose entry is a dict
\* holding 'value'.
StatEntries(stats) ==
  LET ks == {k \in DOMAIN stats : stats[k].t = "obj" /\ "value" \in DOMAIN stats[k].v}
      src == [c \in {StatColumn(k) : k \in ks} |-> CHOOSE k \in ks : StatColumn(k) = c]
  IN [c \in DOMAIN src |-> stats[src[c]].v["value"]]

\* extract_player_data (lines 55-103) on the mapping payload of a record.
\* Result: [exc |-> "none", row |-> the flattened row], or the exception
\* that propagates out of the function.  A later assignment to the same
\* key overwrites an earlier one, hence the later groups stand left of @@.
ExtractPlayerData(player) ==
  LET scalars == [c \in ScalarColumns |-> Get(player, ScalarSource[c])]
      altC == Comprehension(OrElse(Get(player, "alternatePositions"), List(<< >>)), "shortLabel")
      altJ == JoinColumn(altC.val)
      abilities == OrElse(Get(player, "playerAbilities"), List(<< >>))
      labC == Comprehension(abilities, "label")
      imgC == Comprehension(abilities, "imageUrl")
      labJ == JoinColumn(labC.val)
      imgJ == JoinColumn(imgC.val)
      nationality == SubObject(player, "nationality")
      team == SubObject(player, "team")
      position == SubObject(player, "position")
      stats == OrElse(Get(player, "stats"), EmptyObj)
      notDict(x) == IF x.t = "obj" THEN "none" ELSE "AttributeError"
      exc == FirstExc(<<altC.exc, IF altC.exc = "none" THEN altJ.exc ELSE "none",
                        labC.exc, imgC.exc,
                        IF labC.exc = "none" THEN labJ.exc ELSE "none",
                        IF imgC.exc = "none" THEN imgJ.exc ELSE "none",
                        notDict(nationality), notDict(team), notDict(position),
                        notDict(stats)>>)
  IN IF exc # "none" THEN [exc |-> exc, row |-> EmptyMap]
     ELSE [exc |-> "none",
           row |-> StatEntries(stats.v)
                   @@ [c \in ObjectColumns |->
                        CASE c = "nationality_label" -> GetOr(nationality.v, "label", EmptyStr)
                          [] c = "nationality_image_url" -> GetOr(nationality.v, "imageUrl", EmptyStr)
                          [] c = "team_label" -> GetOr(team.v, "label", EmptyStr)
                          [] c = "team_image_url" -> GetOr(team.v, "imageUrl", EmptyStr)
                          [] c = "position_short_label" -> GetOr(position.v, "shortLabel", EmptyStr)]
                   @@ [c \in ListColumns |->
                        CASE c = "alternate_positions" -> altJ.val
                          [] c = "player_abilities_labels" -> labJ.val
                          [] c = "player_abilities_images" -> imgJ.val]
                   @@ scalars]

\* ------------------------------------------------------------------------
\* Bounds and program constants
\* ------------------------------------------------------------------------
\* limit = 100 (line 109), the fixed page size.
limit == 100

\* The most fetch_page calls of one run that the model follows.
MaxFetches == 3

\* A short page's record count (the 37 of the end-to-end scenario).
ShortCount == 37

\* ------------------------------------------------------------------------
\* The upstream: raw records and responses
\* ------------------------------------------------------------------------
ST == <<"S", "T">>
CAM == <<"C", "A", "M">>
RW == <<"R", "|", "W">>
Url == <<"u">>

\* Raw record shapes (everything but the id), by name.
Shape(name) ==
  CASE name = "full" ->
         [firstName |-> Str(<<"L">>), lastName |-> Str(<<"M">>), overallRating |-> Num(91),
          commonName |-> Null, skillMoves |-> Num(4), weakFootAbility |-> Num(4),
          preferredFoot |-> Num(1), leagueName |-> Str(<<"M", "L", "S">>),
          avatarUrl |-> Str(Url), shieldUrl |-> Str(Url),
          alternatePositions |-> List(<<Obj([shortLabel |-> Str(ST)]), Obj([shortLabel |-> Str(CAM)])>>),
          playerAbilities |-> List(<<Obj([label |-> Str(<<"F">>), imageUrl |-> Str(Url)])>>),
          nationality |-> Obj([label |-> Str(<<"A">>), imageUrl |-> Str(Url)]),
          team |-> Obj([label |-> Str(<<"I">>), imageUrl |-> Str(Url)]),
          position |-> Obj([shortLabel |-> Str(RW)]),
          stats |-> Obj([pac |-> Obj([value |-> Num(85)]), sho |-> Obj([value |-> Num(89)])])]
    [] name = "bare" -> EmptyMap
    [] name = "sparse" ->
         [firstName |-> Str(<<"K">>), commonName |-> Str(<<>>), weakFootAbility |-> Num(3),
          alternatePositions |-> List(<<Obj([shortLabel |-> Str(ST)]), Obj([shortLabel |-> Str(CAM)])>>),
          playerAbilities |-> List(<< >>),
          nationality |-> Null, team |-> EmptyObj,
          stats |-> Obj([dri |-> Obj([value |-> Num(70)]), phy |-> EmptyObj, def |-> Num(5)])]
    [] name = "nulllabel" ->
         [alternatePositions |-> List(<<Obj([shortLabel |-> Null])>>)]
    [] name = "strelem" ->
         [playerAbilities |-> List(<<Str(ST)>>)]
    [] name = "statslist" ->
         [stats |-> List(<<Num(1)>>)]

\* The record at 0-based index idx of the upstream collection.
MakeRecord(name, idx) == Obj(("id" :> Num(idx + 1)) @@ Shape(name))

\* A page mixes shapes cyclically: record idx has shape mix[idx mod Len(mix)].
GoodMixes == {<<"full">>, <<"sparse", "bare", "full">>}
BadMixes == {<<"full", "nulllabel">>, <<"strelem">>, <<"bare", "bare", "statslist">>}
Mixes == GoodMixes \cup BadMixes
Counts == {1, ShortCount, limit - 1, limit, limit + 1}

ItemsOf(n, mix, off) ==
  List([i \in 1..n |-> MakeRecord(mix[((off + i - 1) % Len(mix)) + 1], off + i - 1)])

\* What client.get / raise_for_status / response.json() can produce for one
\* request (lines 45-47): an exception, or a decoded JSON body.
FailureKinds == {"ConnectError", "ReadTimeout", "HTTPStatusError", "JSONDecodeError"}
OddBodies == {"empty_dict", "no_items_key", "items_null", "items_empty",
              "null_item", "json_null", "json_empty_list", "json_list"}
Responses ==
  [kind : FailureKinds \cup OddBodies, n : {0}, mix : {<< >>}]
  \cup [kind : {"items"}, n : Counts, mix : Mixes]

\* The decoded body of a response that decodes.
Body(r, off) ==
  CASE r.kind = "items" -> Obj([items |-> ItemsOf(r.n, r.mix, off)])
    [] r.kind = "empty_dict" -> EmptyObj
    [] r.kind = "no_items_key" -> Obj([totalItems |-> Num(0)])
    [] r.kind = "items_null" -> Obj([items |-> Null])
    [] r.kind = "items_empty" -> Obj([items |-> List(<< >>)])
    [] r.kind = "null_item" -> Obj([items |-> List(<<MakeRecord("full", off), Null>>)])
    [] r.kind = "json_null" -> Null
    [] r.kind = "json_empty_list" -> List(<< >>)
    [] r.kind = "json_list" -> List(<<MakeRecord("full", off)>>)

\* fetch_page (lines 35-53): the decoded body, or None after printing the
\* diagnostic of the caught exception.
FetchPage(r, off) ==
  IF r.kind \in {"ConnectError", "ReadTimeout", "HTTPStatusError"}
  THEN [data |-> Null, out |-> <<"HTTP error fetching offset">>]
  ELSE IF r.kind = "JSONDecodeError"
  THEN [data |-> Null, out |-> <<"JSON decode error at offset">>]
  ELSE [data |-> Body(r, off), out |-> << >>]

\* The for loop of lines 128-130: flatten and append each record in turn.
\* player.get raises AttributeError on an item that is not a dict.  The
\* loop stops at the first item that raises; the rows appended before it
\* stay in place.
ItemResult(item) ==
  IF item.t # "obj" THEN [exc |-> "AttributeError", row |-> EmptyMap]
  ELSE ExtractPlayerData(item.v)

\* Mutant of ProcessItems: the first item of the page is skipped.
ProcessItemsSkipsFirst(rows, items) ==
  LET res == [i \in 1..Len(items) |-> ItemResult(items[i])]
      bad == {i \in 2..Len(items) : res[i].exc # "none"}
      stop == IF bad = {} THEN Len(items) + 1
              ELSE CHOOSE i \in bad : \A j \in bad : i <= j
  IN [exc |-> IF bad = {} THEN "none" ELSE res[stop].exc,
      rows |-> rows \o [i \in 1..(stop - 2) |-> res[i + 1].row]]

ProcessItems(rows, items) ==
  LET res == [i \in 1..Len(items) |-> ItemResult(items[i])]
      bad == {i \in 1..Len(items) : res[i].exc # "none"}
      stop == IF bad = {} THEN Len(items) + 1
              ELSE CHOOSE i \in bad : \A j \in bad : i <= j
  IN [exc |-> IF bad = {} THEN "none" ELSE res[stop].exc,
      rows |-> rows \o [i \in 1..(stop - 1) |-> res[i].row]]

\* ------------------------------------------------------------------------
\* save_to_csv: column order and record text
\* ------------------------------------------------------------------------
\* The characters of a column name, and the code point of a character:
\* sorted() on str compares code point by code point.
Spell(c) ==
    CASE c = "id" -> <<"i", "d">>
      [] c = "overall_rating" -> <<"o", "v", "e", "r", "a", "l", "l", "_", "r", "a", "t", "i", "n", "g">>
      [] c = "first_name" -> <<"f", "i", "r", "s", "t", "_", "n", "a", "m", "e">>
      [] c = "last_name" -> <<"l", "a", "s", "t", "_", "n", "a", "m", "e">>
      [] c = "common_name" -> <<"c", "o", "m", "m", "o", "n", "_", "n", "a", "m", "e">>
      [] c = "skill_moves" -> <<"s", "k", "i", "l", "l", "_", "m", "o", "v", "e", "s">>
      [] c = "weak_foot" -> <<"w", "e", "a", "k", "_", "f", "o", "o", "t">>
      [] c = "preferred_foot" -> <<"p", "r", "e", "f", "e", "r", "r", "e", "d", "_", "f", "o", "o", "t">>
      [] c = "league_name" -> <<"l", "e", "a", "g", "u", "e", "_", "n", "a", "m", "e">>
      [] c = "avatar_url" -> <<"a", "v", "a", "t", "a", "r", "_", "u", "r", "l">>
      [] c = "shield_url" -> <<"s", "h", "i", "e", "l", "d", "_", "u", "r", "l">>
      [] c = "alternate_positions" -> <<"a", "l", "t", "e", "r", "n", "a", "t", "e", "_", "p", "o", "s", "i", "t", "i", "o", "n", "s">>
      [] c = "player_abilities_labels" -> <<"p", "l", "a", "y", "e", "r", "_", "a", "b", "i", "l", "i", "t", "i", "e", "s", "_", "l", "a", "b", "e", "l", "s">>
      [] c = "player_abilities_images" -> <<"p", "l", "a", "y", "e", "r", "_", "a", "b", "i", "l", "i", "t", "i", "e", "s", "_", "i", "m", "a", "g", "e", "s">>
      [] c = "nationality_label" -> <<"n", "a", "t", "i", "o", "n", "a", "l", "i", "t", "y", "_", "l", "a", "b", "e", "l">>
      [] c = "nationality_image_url" -> <<"n", "a", "t", "i", "o", "n", "a", "l", "i", "t", "y", "_", "i", "m", "a", "g", "e", "_", "u", "r", "l">>
      [] c = "team_label" -> <<"t", "e", "a", "m", "_", "l", "a", "b", "e", "l">>
      [] c = "team_image_url" -> <<"t", "e", "a", "m", "_", "i", "m", "a", "g", "e", "_", "u", "r", "l">>
      [] c = "position_short_label" -> <<"p", "o", "s", "i", "t", "i", "o", "n", "_", "s", "h", "o", "r", "t", "_", "l", "a", "b", "e", "l">>
      [] c = "stat_pac" -> <<"s", "t", "a", "t", "_", "p", "a", "c">>
      [] c = "stat_sho" -> <<"s", "t", "a", "t", "_", "s", "h", "o">>
      [] c = "stat_dri" -> <<"s", "t", "a", "t", "_", "d", "r", "i">>
      [] c = "stat_phy" -> <<"s", "t", "a", "t", "_", "p", "h", "y">>
      [] c = "stat_def" -> <<"s", "t", "a", "t", "_", "d", "e", "f">>
      [] c = "stat_" -> <<"s", "t", "a", "t", "_">>
CodePoint(ch) == IF ch = "_" THEN 95 ELSE [a |-> 97, b |-> 98, c |-> 99, d |-> 100, e |-> 101, f |-> 102, g |-> 103, h |-> 104, i |-> 105, k |-> 107, l |-> 108, m |-> 109, n |-> 110, o |-> 111, p |-> 112, r |-> 114, s |-> 115, t |-> 116, u |-> 117, v |-> 118, w |-> 119, y |-> 121][ch]

\* a < b for str: the first differing code point decides, a proper prefix
\* is smaller.
RECURSIVE LexLess(_, _)
LexLess(a, b) ==
  IF b = << >> THEN FALSE
  ELSE IF a = << >> THEN TRUE
  ELSE IF CodePoint(a[1]) # CodePoint(b[1]) THEN CodePoint(a[1]) < CodePoint(b[1])
  ELSE LexLess(Tail(a), Tail(b))

\* sorted(list(all_fields)) (line 159).
RECURSIVE Sorted(_)
Sorted(S) ==
  IF S = {} THEN << >>
  ELSE LET m == CHOOSE a \in S : \A b \in S \ {a} : LexLess(Spell(a), Spell(b))
       IN <<m>> \o Sorted(S \ {m})

\* Mutant of AllFields: the keys of the first row only.
FirstRowFields(rows) == IF rows = << >> THEN {} ELSE DOMAIN rows[1]

\* all_fields (lines 154-156): the union of the keys of all rows.
AllFields(rows) == UNION {DOMAIN rows[i] : i \in 1..Len(rows)}

\* str(n) for a natural number.
RECURSIVE Digits(_)
Digits(n) ==
  LET d == <<"0", "1", "2", "3", "4", "5", "6", "7", "8", "9">>[(n % 10) + 1]
  IN IF n < 10 THEN <<d>> ELSE Digits(n \div 10) \o <<d>>

\* The text the csv writer puts in a field: '' for None, the str itself,
\* str(value) for a number or a bool.
CsvField(x) ==
  CASE x.t = "null" -> << >>
    [] x.t = "str" -> x.v
    [] x.t = "num" -> Digits(x.v)
    [] x.t = "bool" -> IF x.v THEN <<"T", "r", "u", "e">> ELSE <<"F", "a", "l", "s", "e">>

\* DictWriter._dict_to_list: one field per fieldname, restval '' for a
\* key the row does not have.
RowRecord(row, fieldnames) ==
  [kind |-> "row",
   fields |-> [j \in 1..Len(fieldnames) |->
                IF fieldnames[j] \in DOMAIN row THEN CsvField(row[fieldnames[j]]) ELSE << >>]]

\* writeheader() then writerows(players_data) (lines 165-166).
HeaderRecord(fieldnames) == [kind |-> "header", fields |-> fieldnames]
WriteCsv(rows, fieldnames) ==
  <<HeaderRecord(fieldnames)>> \o [i \in 1..Len(rows) |-> RowRecord(rows[i], fieldnames)]

\* ------------------------------------------------------------------------
\* State
\* ------------------------------------------------------------------------
VARIABLES
  pc,             \* position of run(): "new", "loop", "awaiting", "sleeping",
                  \* "exited" (loop left), "done", "crashed", "flatten"
  offset,         \* local offset of fetch_all_players
  total_fetched,  \* local total_fetched
  players_data,   \* self.players_data, the Row Set
  calls,          \* the fetch_page calls issued so far: [offset, limit]
  responses,      \* what the upstream answered to each call
  exit,           \* which break left the loop: "failed", "empty", "short"
  exception,      \* the exception that propagated out of run(), or "none"
  stdout,         \* the printed diagnostics, in order
  sleeps,         \* completed asyncio.sleep(0.5) pauses
  csvfile,        \* the output file: whether it exists, and its records
  player,         \* argument of a direct extract_player_data call
  extracted,      \* result of that call
  collection      \* the record collection a slicing upstream holds

vars == <<pc, offset, total_fetched, players_data, calls, responses, exit,
          exception, stdout, sleeps, csvfile, player, extracted, collection>>

NoFile == [exists |-> FALSE, records |-> << >>]
NotRun == [exc |-> "pending", row |-> EmptyMap]
NoCollection == [size |-> 0, mix |-> << >>]

\* __init__ (lines 15-33): players_data = [].
Init ==
  /\ pc = "new"
  /\ offset = 0
  /\ total_fetched = 0
  /\ players_data = << >>
  /\ calls = << >>
  /\ responses = << >>
  /\ exit = "none"
  /\ exception = "none"
  /\ stdout = << >>
  /\ sleeps = 0
  /\ csvfile = NoFile
  /\ player = EmptyMap
  /\ extracted = NotRun
  /\ collection = NoCollection

\* run() enters fetch_all_players (lines 105-112).
Start ==
  /\ pc = "new"
  /\ pc' = "loop"
  /\ offset' = 0
  /\ total_fetched' = 0
  /\ stdout' = Append(stdout, "Starting to fetch player data...")
  /\ UNCHANGED <<players_data, calls, responses, exit, exception, sleeps, csvfile,
                 player, extracted, collection>>

\* Mutant of SendRequest: the next request does not wait for the pause to
\* end.
SendRequestNoPause ==
  /\ pc \in {"loop", "sleeping"}
  /\ Len(calls) < MaxFetches
  /\ pc' = "awaiting"
  /\ calls' = Append(calls, [offset |-> offset, limit |-> limit])
  /\ stdout' = Append(stdout, "Fetching page at offset")
  /\ UNCHANGED <<offset, total_fetched, players_data, responses, exit, exception,
                 sleeps, csvfile, player, extracted, collection>>

\* Top of the while loop up to the await of client.get (lines 114-117, 45).
SendRequest ==
  /\ pc = "loop"
  /\ Len(calls) < MaxFetches
  /\ pc' = "awaiting"
  /\ calls' = Append(calls, [offset |-> offset, limit |-> limit])
  /\ stdout' = Append(stdout, "Fetching page at offset")
  /\ UNCHANGED <<offset, total_fetched, players_data, responses, exit, exception,
                 sleeps, csvfile, player, extracted, collection>>

\* How one pass of the loop body ends.  next is "exited" after a break,
\* "sleeping" before the pause, "crashed" when an exception leaves the loop.
Break(reason, rows, off, total, out) ==
  [next |-> "exited", exit |-> reason, exc |-> "none", rows |-> rows,
   offset |-> off, total |-> total, out |-> out]
Raise(exc, rows, off, total) ==
  [next |-> "crashed", exit |-> "none", exc |-> exc, rows |-> rows,
   offset |-> off, total |-> total, out |-> << >>]
Continue(rows, off, total, out) ==
  [next |-> "sleeping", exit |-> "none", exc |-> "none", rows |-> rows,
   offset |-> off, total |-> total, out |-> out]

\* Mutant of ProcessPage: the offset advances by the number of records
\* received instead of the page size.
ProcessPageAdvancesByCount(items, rows, off, total) ==
  IF ~Iterable(items) THEN Raise("TypeError", rows, off, total)
  ELSE LET p == ProcessItems(rows, Elems(items))
           n == Len(Elems(items))
       IN IF p.exc # "none" THEN Raise(p.exc, p.rows, off, total)
          ELSE IF n < limit
          THEN Break("short", p.rows, off, total + n,
                     <<"Fetched players", "Reached last page!">>)
          ELSE Continue(p.rows, off + n, total + n, <<"Fetched players">>)

\* Lines 127-140: process a non-empty items value, then break on a short
\* page or advance the offset.
ProcessPage(items, rows, off, total) ==
  IF ~Iterable(items) THEN Raise("TypeError", rows, off, total)
  ELSE LET p == ProcessItems(rows, Elems(items))
           n == Len(Elems(items))
       IN IF p.exc # "none" THEN Raise(p.exc, p.rows, off, total)
          ELSE IF n < limit
          THEN Break("short", p.rows, off, total + n,
                     <<"Fetched players", "Reached last page!">>)
          ELSE Continue(p.rows, off + limit, total + n, <<"Fetched players">>)

\* Mutant of LoopBody: an empty page does not break, the loop moves on to
\* the next offset.
LoopBodyNoEmptyBreak(data, rows, off, total) ==
  IF ~Truthy(data)
  THEN Break("failed", rows, off, total, <<"Failed to fetch data at offset">>)
  ELSE IF data.t # "obj" THEN Raise("AttributeError", rows, off, total)
  ELSE LET items == GetOr(data.v, "items", List(<< >>))
       IN IF ~Truthy(items)
          THEN Continue(rows, off + limit, total, << >>)
          ELSE ProcessPage(items, rows, off, total)

\* Mutant of LoopBody: a failed page is retried after the pause.
LoopBodyRetry(data, rows, off, total) ==
  IF ~Truthy(data)
  THEN Continue(rows, off, total, <<"Failed to fetch data at offset">>)
  ELSE IF data.t # "obj" THEN Raise("AttributeError", rows, off, total)
  ELSE LET items == GetOr(data.v, "items", List(<< >>))
       IN IF ~Truthy(items)
          THEN Break("empty", rows, off, total, <<"No more items found. Scraping complete!">>)
          ELSE ProcessPage(items, rows, off, total)

\* The loop body after fetch_page returned data (lines 118-140).
LoopBody(data, rows, off, total) ==
  IF ~Truthy(data)
  THEN Break("failed", rows, off, total, <<"Failed to fetch data at offset">>)
  ELSE IF data.t # "obj" THEN Raise("AttributeError", rows, off, total)
  ELSE LET items == GetOr(data.v, "items", List(<< >>))
       IN IF ~Truthy(items)
          THEN Break("empty", rows, off, total, <<"No more items found. Scraping complete!">>)
          ELSE ProcessPage(items, rows, off, total)

\* The state after one pass b of the loop body; fpout is what fetch_page
\* printed.
Resume(b, fpout) ==
  /\ pc' = b.next
  /\ exit' = b.exit
  /\ exception' = b.exc
  /\ players_data' = b.rows
  /\ offset' = b.offset
  /\ total_fetched' = b.total
  /\ stdout' = stdout \o fpout \o b.out

\* The upstream answers the pending request with r; fetch_page returns and
\* the loop body runs to its break, to the pause, or to an exception.
Respond(r) ==
  /\ pc = "awaiting"
  /\ \E fp \in {FetchPage(r, offset)} :
       \E b \in {LoopBody(fp.data, players_data, offset, total_fetched)} :
         Resume(b, fp.out)
  /\ responses' = Append(responses, r)
  /\ UNCHANGED <<calls, sleeps, csvfile, player, extracted, collection>>

\* await asyncio.sleep(0.5) returns (line 143); back to the top of the loop.
Wake ==
  /\ pc = "sleeping"
  /\ pc' = "loop"
  /\ sleeps' = sleeps + 1
  /\ UNCHANGED <<offset, total_fetched, players_data, calls, responses, exit,
                 exception, stdout, csvfile, player, extracted, collection>>

\* Mutant of SaveResult: the file is opened before the emptiness check.
SaveResultOpensFirst(rows, fieldnames) ==
  IF rows = << >>
  THEN [file |-> [exists |-> TRUE, records |-> << >>], out |-> <<"No data to save!">>]
  ELSE [file |-> [exists |-> TRUE, records |-> WriteCsv(rows, fieldnames)],
        out |-> <<"Data saved to", "Total columns", "Total rows">>]

\* Mutant of SaveResult: no emptiness check, a header-only file is written.
SaveResultNoGuard(rows, fieldnames) ==
  [file |-> [exists |-> TRUE, records |-> WriteCsv(rows, fieldnames)],
   out |-> <<"Data saved to", "Total columns", "Total rows">>]

\* save_to_csv (lines 147-170) with fieldnames = sorted(list(all_fields)):
\* the file, and what is printed.
SaveResult(rows, fieldnames) ==
  IF rows = << >>
  THEN [file |-> NoFile, out |-> <<"No data to save!">>]
  ELSE [file |-> [exists |-> TRUE, records |-> WriteCsv(rows, fieldnames)],
        out |-> <<"Data saved to", "Total columns", "Total rows">>]

\* Mutant of SaveToCsv: nothing is written after a failed fetch.
SaveToCsvIfComplete ==
  /\ pc = "exited"
  /\ pc' = "done"
  /\ \E fieldnames \in {Sorted(AllFields(players_data))} :
       \E s \in {SaveResult(IF exit = "failed" THEN << >> ELSE players_data, fieldnames)} :
         /\ csvfile' = s.file
         /\ stdout' = stdout \o <<"Total players scraped">> \o s.out
  /\ UNCHANGED <<offset, total_fetched, players_data, calls, responses, exit,
                 exception, sleeps, player, extracted, collection>>

\* fetch_all_players returns (line 145) and run() calls save_to_csv
\* (lines 174-175).
SaveToCsv ==
  /\ pc = "exited"
  /\ pc' = "done"
  /\ \E fieldnames \in {Sorted(AllFields(players_data))} :
       \E s \in {SaveResult(players_data, fieldnames)} :
         /\ csvfile' = s.file
         /\ stdout' = stdout \o <<"Total players scraped">> \o s.out
  /\ UNCHANGED <<offset, total_fetched, players_data, calls, responses, exit,
                 exception, sleeps, player, extracted, collection>>

Next ==
  \/ Start
  \/ SendRequest
  \/ \E r \in Responses : Respond(r)
  \/ Wake
  \/ SaveToCsv

Spec == Init /\ [][Next]_vars

\* ------------------------------------------------------------------------
\* extract_player_data called directly on one raw record
\* ------------------------------------------------------------------------
\* The longest list of sub-objects in a raw record.
MaxElems == 2

\* All sequences over S of length at most n.
SeqsUpTo(S, n) == UNION {[1..k -> S] : k \in 0..n}

\* A mapping with the key absent, or present with one of the values.
Optional(key, vals) == {EmptyMap} \cup {key :> x : x \in vals}

AltElems == {Obj([shortLabel |-> Str(ST)]), Obj([shortLabel |-> Str(CAM)]),
             Obj([shortLabel |-> Str(RW)]), Obj([shortLabel |-> EmptyStr]),
             Obj([label |-> Str(ST)]), EmptyObj, Null,
             Obj([shortLabel |-> Null]), Str(ST)}
AbilityElems == {Obj([label |-> Str(<<"F">>), imageUrl |-> Str(Url)]),
                 Obj([label |-> Str(<<"G">>)]), Null,
                 Obj([label |-> Num(7), imageUrl |-> Str(Url)])}
AltValues == {List(s) : s \in SeqsUpTo(AltElems, MaxElems)} \cup {Null, Num(5), Str(ST)}
AbilityValues == {List(s) : s \in SeqsUpTo(AbilityElems, MaxElems)} \cup {Null, Bool(TRUE)}
SubObjectValues == {Null, EmptyObj, Obj([label |-> Str(<<"A">>), imageUrl |-> Str(Url)]),
                    Obj([label |-> Null]), Obj([shortLabel |-> Str(ST)]), Str(<<"A">>)}
StatsValues == {Null, EmptyObj, Obj([pac |-> Obj([value |-> Num(85)])]),
                Obj([pac |-> Obj([value |-> Null]), dri |-> EmptyObj, def |-> Num(5)]),
                Obj("" :> Obj([value |-> Num(1)])), List(<<Num(1)>>)}
ScalarValues == {Null, Num(0), Str(<<"L">>), Bool(FALSE)}

\* The raw records flattened directly: every combination of the two list
\* fields, and every combination of the sub-object, stats and scalar fields.
RawRecords ==
  {a @@ b : a \in Optional("alternatePositions", AltValues),
            b \in Optional("playerAbilities", AbilityValues)}
  \cup {n @@ p @@ s @@ i @@ f :
          n \in Optional("nationality", SubObjectValues),
          p \in Optional("position", SubObjectValues),
          s \in Optional("stats", StatsValues),
          i \in Optional("id", ScalarValues),
          f \in Optional("preferredFoot", ScalarValues)}

FlattenInit ==
  /\ pc = "flatten"
  /\ player \in RawRecords
  /\ extracted = NotRun
  /\ offset = 0
  /\ total_fetched = 0
  /\ players_data = << >>
  /\ calls = << >>
  /\ responses = << >>
  /\ exit = "none"
  /\ exception = "none"
  /\ stdout = << >>
  /\ sleeps = 0
  /\ csvfile = NoFile
  /\ collection = NoCollection

\* One call extract_player_data(player).
Extract ==
  /\ pc = "flatten"
  /\ pc' = "flattened"
  /\ extracted' = ExtractPlayerData(player)
  /\ UNCHANGED <<offset, total_fetched, players_data, calls, responses, exit,
                 exception, stdout, sleeps, csvfile, player, collection>>

FlattenNext == Extract

FlattenSpec == FlattenInit /\ [][FlattenNext]_vars

\* ------------------------------------------------------------------------
\* Properties
\* ------------------------------------------------------------------------
Range(s) == {s[i] : i \in 1..Len(s)}
LoopLeft == pc \in {"exited", "done"}

\* The records the i-th response carried, and their flattened rows.
PageRecords(i) == ItemsOf(responses[i].n, responses[i].mix, calls[i].offset).v
PageRows(i) == [k \in 1..responses[i].n |-> ExtractPlayerData(PageRecords(i)[k].v).row]

\* A response has just been received in this step.
Received == Len(responses') = Len(responses) + 1
Latest == responses'[Len(responses')]

IsShortPage(r) == r.kind = "items" /\ r.n > 0 /\ r.n < limit
IsFullPage(r) == r.kind = "items" /\ r.n = limit
IsZeroPage(r) == r.kind \in {"items_empty", "items_null", "no_items_key", "empty_dict"}
IsFailure(r) == r.kind \in FailureKinds
IsTransportError(r) == r.kind \in {"ConnectError", "ReadTimeout", "HTTPStatusError"}

\* C1: a page with a non-empty record list shorter than the limit has all
\* its records flattened and appended to the Row Set, in order, and ends
\* the loop: it is the last fetch_page call of the run.
ShortPageEndsPagination ==
  \A i \in 1..Len(responses) :
    IsShortPage(responses[i]) =>
      /\ LoopLeft
      /\ exit = "short"
      /\ Len(calls) = i
      /\ Len(players_data) >= responses[i].n
      /\ \A k \in 1..responses[i].n :
           players_data[Len(players_data) - responses[i].n + k] = PageRows(i)[k]

\* C2: a page with zero records ends the loop, leaves the Row Set exactly
\* as it was before the fetch, and is the last fetch_page call of the run.
EmptyPageEndsPagination ==
  /\ [][(Received /\ IsZeroPage(Latest)) =>
          (players_data' = players_data /\ pc' = "exited")]_vars
  /\ [](\A i \in 1..Len(responses) :
          IsZeroPage(responses[i]) => (LoopLeft /\ Len(calls) = i))

EmptyPageAfterFullPage ==
  /\ pc = "done"
  /\ Len(responses) = 2
  /\ responses[2].kind = "items_empty"
  /\ Len(players_data) = limit

\* C3: a failed page (transport error, non-success status, malformed body)
\* ends the loop through the failure branch and leaves the Row Set
\* unchanged; no fetch_page call follows it, at the same or a later offset.
FailedPageAbortsCrawl ==
  /\ [][(Received /\ IsFailure(Latest)) =>
          (players_data' = players_data /\ pc' = "exited" /\ exit' = "failed")]_vars
  /\ [](\A i \in 1..Len(responses) :
          IsFailure(responses[i]) =>
            /\ LoopLeft
            /\ Len(calls) = i
            /\ \A j \in 1..Len(calls) : j # i => calls[j].offset < calls[i].offset)

FailedSecondPage ==
  /\ pc = "done"
  /\ Len(calls) = 2
  /\ IsFailure(responses[2])
  /\ calls[2].offset = limit
  /\ Len(players_data) >= limit

\* C4: k pages of exactly limit records followed by one page of m records,
\* 0 < m < limit, take exactly k+1 fetches, at offsets 0, limit, ...,
\* limit*k, and leave exactly limit*k + m rows in the Row Set.
EndToEndPageCount ==
  LET k == Len(responses) - 1
  IN (/\ responses # << >>
      /\ IsShortPage(responses[k + 1])
      /\ \A j \in 1..k : IsFullPage(responses[j]))
     => /\ LoopLeft
        /\ Len(calls) = k + 1
        /\ \A j \in 1..(k + 1) : calls[j].offset = limit * (j - 1)
        /\ Len(players_data) = limit * k + responses[k + 1].n

\* C5: a transport error on the first fetch leaves exactly one fetch, an
\* empty Row Set, no output file, and a printed diagnostic.
Diagnostics == {"HTTP error fetching offset", "Failed to fetch data at offset"}
FirstPageFailure ==
  (responses # << >> /\ IsTransportError(responses[1]))
  => /\ LoopLeft
     /\ Len(calls) = 1
     /\ players_data = << >>
     /\ csvfile = NoFile
     /\ Range(stdout) \cap Diagnostics # {}
     /\ pc = "done" => "No data to save!" \in Range(stdout)

FirstPageTimedOut ==
  /\ pc = "done"
  /\ responses = <<[kind |-> "ReadTimeout", n |-> 0, mix |-> << >>]>>

\* C6: no output file exists unless save_to_csv ran on a non-empty Row
\* Set; then the file holds one header record followed by one record per
\* row.
WriterContract ==
  /\ (pc # "done" \/ players_data = << >>) => csvfile = NoFile
  /\ (pc = "done" /\ players_data # << >>) =>
       /\ csvfile.exists
       /\ Len(csvfile.records) = 1 + Len(players_data)
       /\ csvfile.records[1].kind = "header"
       /\ \A i \in 2..Len(csvfile.records) : csvfile.records[i].kind = "row"

NothingWrittenAfterEmptyFirstPage ==
  /\ pc = "done"
  /\ exit = "empty"
  /\ players_data = << >>
  /\ Len(calls) = 1

\* C7: the header is the union of the keys of all rows, in strictly
\* increasing code-point order; every written row has one field per header
\* column, in header order, empty where the row lacks the column.
ColumnSetIsSortedUnion ==
  csvfile.exists =>
    LET header == csvfile.records[1].fields
    IN /\ \A i \in 1..Len(players_data) : DOMAIN players_data[i] \subseteq Range(header)
       /\ \A c \in Range(header) : \E i \in 1..Len(players_data) : c \in DOMAIN players_data[i]
       /\ \A j \in 1..(Len(header) - 1) : LexLess(Spell(header[j]), Spell(header[j + 1]))
       /\ \A i \in 1..Len(players_data) :
            LET fields == csvfile.records[i + 1].fields
                row == players_data[i]
            IN /\ Len(fields) = Len(header)
               /\ \A j \in 1..Len(header) :
                    fields[j] = IF header[j] \in DOMAIN row
                                THEN CsvField(row[header[j]]) ELSE << >>

RowLacksAColumn ==
  /\ csvfile.exists
  /\ \E i \in 1..Len(players_data) :
       LET header == csvfile.records[1].fields
           fields == csvfile.records[i + 1].fields
       IN /\ "stat_pac" \notin DOMAIN players_data[i]
          /\ \E j \in 1..Len(header) : header[j] = "stat_pac" /\ fields[j] = << >>
          /\ header[Len(header)] = "weak_foot"
          /\ fields[Len(header)] = <<"3">>

\* C8: the Row Set is always the concatenation, in fetch order, of the
\* flattened records of the pages received so far, it only grows by
\* appending, and the output file lists the rows in the same order.
RECURSIVE RowsOfPages(_)
RowsOfPages(n) ==
  IF n = 0 THEN << >>
  ELSE RowsOfPages(n - 1) \o (IF responses[n].kind = "items" THEN PageRows(n) ELSE << >>)
IsPrefix(s, t) == Len(s) <= Len(t) /\ \A i \in 1..Len(s) : s[i] = t[i]
IdColumn(header) == CHOOSE j \in 1..Len(header) : header[j] = "id"
RowOrderEqualsFetchOrder ==
  /\ [](players_data = RowsOfPages(Len(responses)))
  /\ [][IsPrefix(players_data, players_data')]_vars
  /\ [](csvfile.exists =>
          \A i \in 1..Len(players_data) :
            csvfile.records[i + 1].fields[IdColumn(csvfile.records[1].fields)]
              = CsvField(players_data[i]["id"]))

\* C9: extract_player_data never raises, and its result holds every
\* statically-known column (11 scalar, 5 sub-object, 3 list columns).
FlattenIsTotal ==
  pc = "flattened" =>
    /\ extracted.exc = "none"
    /\ StaticColumns \subseteq DOMAIN extracted.row

\* The segments of a joined column: the text between separators.
RECURSIVE Split(_)
Split(s) ==
  IF \A i \in 1..Len(s) : s[i] # Sep THEN <<s>>
  ELSE LET p == CHOOSE i \in 1..Len(s) : s[i] = Sep /\ \A j \in 1..(i - 1) : s[j] # Sep
       IN <<SubSeq(s, 1, p - 1)>> \o Split(SubSeq(s, p + 1, Len(s)))

\* The list fields: source key, label key of an element, output column.
ListFields ==
  {[key |-> "alternatePositions", label |-> "shortLabel", column |-> "alternate_positions"],
   [key |-> "playerAbilities", label |-> "label", column |-> "player_abilities_labels"],
   [key |-> "playerAbilities", label |-> "imageUrl", column |-> "player_abilities_images"]}
SuppliesLabel(e, label) == e.t = "obj" /\ label \in DOMAIN e.v /\ e.v[label].t = "str"

\* C10: a list field of N >= 1 elements that each supply a label yields a
\* column of exactly those N labels as '|'-separated segments, in source
\* order; an empty or absent list yields the empty string; this holds for
\* each list field whatever the other fields of the record are.
ListJoin ==
  pc = "flattened" =>
    \A f \in ListFields :
      LET x == Get(player, f.key)
          labelled == /\ x.t = "list"
                      /\ x.v # << >>
                      /\ \A i \in 1..Len(x.v) : SuppliesLabel(x.v[i], f.label)
      IN /\ (x = Null \/ x = List(<< >>)) =>
              /\ f.column \in DOMAIN extracted.row
              /\ extracted.row[f.column] = EmptyStr
         /\ labelled =>
              /\ f.column \in DOMAIN extracted.row
              /\ extracted.row[f.column].t = "str"
              /\ Split(extracted.row[f.column].v) = [i \in 1..Len(x.v) |-> x.v[i].v[f.label].v]

\* The mapping-valued reading of a field: absent and null count as missing.
IsMissing(x) == x = Null
StatColumnsOf(stats) == {StatColumn(k) : k \in DOMAIN stats}

\* C11: each of the sub-object fields nationality, team and position yields
\* two columns of the row, a label and an image reference (six columns
\* beside the scalar, list and stat columns); the nationality and team
\* columns hold the sub-object's label and imageUrl, and all are the empty
\* string when the sub-object is missing or null.
SingleObjectFields ==
  pc = "flattened" =>
    LET row == extracted.row
        stats == OrElse(Get(player, "stats"), EmptyObj)
        derived == DOMAIN row \ (ScalarColumns \cup ListColumns \cup
                                  (IF stats.t = "obj" THEN StatColumnsOf(stats.v) ELSE {}))
    IN /\ ObjectColumns \subseteq DOMAIN row
       /\ Cardinality(derived) = 2 * Cardinality({"nationality", "team", "position"})
       /\ \A f \in {"nationality", "team", "position"} :
            IsMissing(Get(player, f)) =>
              \A c \in {d \in ObjectColumns :
                          \/ f = "nationality" /\ d \in {"nationality_label", "nationality_image_url"}
                          \/ f = "team" /\ d \in {"team_label", "team_image_url"}
                          \/ f = "position" /\ d = "position_short_label"} :
                row[c] = EmptyStr
       /\ LET n == Get(player, "nationality")
          IN n.t = "obj" =>
               /\ row["nationality_label"] = GetOr(n.v, "label", EmptyStr)
               /\ row["nationality_image_url"] = GetOr(n.v, "imageUrl", EmptyStr)

\* C12: every key k of the stats mapping yields one column stat_k, holding
\* the entry's 'value' when the entry has one; a stat column never has the
\* name of a static column, and the row has no stat column for a key that
\* is not in the stats mapping.
StatsExpansion ==
  pc = "flattened" =>
    LET row == extracted.row
        stats == Get(player, "stats")
    IN /\ extracted.exc = "none"
       /\ stats.t = "obj" =>
            /\ \A k \in DOMAIN stats.v :
                 /\ StatColumn(k) \in DOMAIN row
                 /\ StatColumn(k) \notin StaticColumns
                 /\ (stats.v[k].t = "obj" /\ "value" \in DOMAIN stats.v[k].v)
                      => row[StatColumn(k)] = stats.v[k].v["value"]
            /\ DOMAIN row \ StaticColumns \subseteq StatColumnsOf(stats.v)
       /\ stats.t # "obj" => DOMAIN row \subseteq StaticColumns

LastResponse == responses[Len(responses)]
IsNotAPage(r) == r.kind \in {"json_null", "json_empty_list", "json_list"}

\* C13: after a transport error, a body that is not valid JSON or a body
\* that decodes to something that is no mapping, no exception leaves
\* run(): the loop stops and the write step runs; a write with zero rows
\* is skipped without an exception.
NoFatalError ==
  /\ (responses # << >> /\ (IsFailure(LastResponse) \/ IsNotAPage(LastResponse)))
       => (pc # "crashed" /\ exception = "none")
  /\ (pc = "done" /\ players_data = << >>) => (exception = "none" /\ csvfile = NoFile)

\* C14: a page whose record list is empty or absent, the empty mapping
\* included, ends the loop through the end-of-data branch; the failure
\* branch is taken only when fetch_page reported a failure.
EmptyPageCompletes ==
  responses # << >> =>
    /\ IsZeroPage(LastResponse) => (LoopLeft /\ exit = "empty")
    /\ exit = "failed" => IsFailure(LastResponse)

\* C15: the n-th fetch_page call (n >= 0) is at offset limit*n with limit
\* 100, whatever number of records the earlier pages held.
OffsetProgression ==
  \A j \in 1..Len(calls) :
    /\ calls[j].offset = limit * (j - 1)
    /\ calls[j].limit = limit
    /\ \A i \in 1..(j - 1) : calls[i].offset < calls[j].offset

ThirdFetchAfterOversizedPage ==
  /\ Len(calls) = 3
  /\ responses[1].n = limit + 1
  /\ calls[3].offset = 2 * limit

\* C16: a failed fetch leaves the rows of the earlier pages in the Row Set,
\* and the write step then writes them as it writes any Row Set: the file
\* depends on the Row Set alone, not on how the loop ended.
MidCrawlFailureKeepsRows ==
  /\ [][(Received /\ IsFailure(Latest)) => players_data' = players_data]_vars
  /\ [](pc = "done" =>
          \E fieldnames \in {Sorted(AllFields(players_data))} :
            csvfile = SaveResult(players_data, fieldnames).file)

PartialRowsWritten ==
  /\ pc = "done"
  /\ exit = "failed"
  /\ Len(calls) = 2
  /\ Len(players_data) = limit
  /\ csvfile.exists
  /\ Len(csvfile.records) = limit + 1

\* C17: one pause lies between two consecutive fetch_page calls, taken
\* after the page was appended and the offset advanced; no pause follows a
\* page that ends the loop; the file is written only after the loop ended.
CourtesyDelayOrdering ==
  /\ pc \in {"new", "loop"} => sleeps = Len(calls)
  /\ pc \in {"awaiting", "sleeping", "exited", "done", "crashed"} => sleeps = Len(calls) - 1
  /\ pc = "sleeping" =>
       /\ Len(responses) = Len(calls)
       /\ offset = limit * Len(calls)
       /\ Len(players_data) >= limit * Len(calls)
  /\ csvfile.exists => (pc = "done" /\ exit # "none")

TwoPausesThreeFetches ==
  /\ pc = "done"
  /\ Len(calls) = 3
  /\ sleeps = 2

\* C18: when no page holds more than limit records, every fetch_page call
\* is issued at the offset that equals the number of rows in the Row Set.
NoOversizedPage == \A i \in 1..Len(responses) : responses[i].n <= limit
OffsetEqualsRowCount ==
  (NoOversizedPage /\ pc = "awaiting") => calls[Len(calls)].offset = Len(players_data)

ThirdFetchAtTwoHundredRows ==
  /\ pc = "awaiting"
  /\ Len(calls) = 3
  /\ NoOversizedPage
  /\ Len(players_data) = 2 * limit

(***************************************************************************)
(* A failure-free upstream that holds a finite collection and answers the  *)
(* request built at lines 38-45 (offset, limit) with the slice             *)
(* [offset, offset + limit) of it.                                         *)
(***************************************************************************)
Min(a, b) == IF a < b THEN a ELSE b
Max(a, b) == IF a < b THEN b ELSE a
CollectionSizes ==
  {limit * k + m : k \in 0..(MaxFetches - 1), m \in {0, 1, ShortCount, limit - 1}}
SliceSize(size, off) == Min(limit, Max(0, size - off))

SliceInit ==
  /\ pc = "new"
  /\ offset = 0
  /\ total_fetched = 0
  /\ players_data = << >>
  /\ calls = << >>
  /\ responses = << >>
  /\ exit = "none"
  /\ exception = "none"
  /\ stdout = << >>
  /\ sleeps = 0
  /\ csvfile = NoFile
  /\ player = EmptyMap
  /\ extracted = NotRun
  /\ collection \in [size : CollectionSizes, mix : Mixes]

SliceRespond ==
  Respond([kind |-> "items", n |-> SliceSize(collection.size, offset),
           mix |-> collection.mix])

SliceNext == Start \/ SendRequest \/ SliceRespond \/ Wake \/ SaveToCsv
SliceSpec == SliceInit /\ [][SliceNext]_vars

\* C19: against the slicing upstream holding N records the loop, once it
\* has ended, made floor(N/100)+1 fetches and the Row Set holds the N
\* records once each in collection order; no run ends in an exception; for
\* N a positive multiple of 100 the last fetch returned an empty page.
CollectionRow(i) == ExtractPlayerData(ItemsOf(1, collection.mix, i - 1).v[1].v).row
SliceCrawlComplete ==
  /\ pc # "crashed"
  /\ LoopLeft =>
       /\ Len(calls) = (collection.size \div limit) + 1
       /\ Len(players_data) = collection.size
       /\ \A i \in 1..Len(players_data) :
            /\ players_data[i] = CollectionRow(i)
            /\ players_data[i]["id"] = Num(i)
       /\ (collection.size > 0 /\ collection.size % limit = 0) =>
            (LastResponse.n = 0 /\ exit = "empty")
====
